---- MODULE Spec2Model ----
(***************************************************************************)
(* Model of pathlib_tutorial.py: the path values the script builds with    *)
(* pathlib.Path on a POSIX system, the accessors and transformations it    *)
(* calls on them, and the directory walk of its first loop.  The pathlib   *)
(* operations are modelled as CPython 3.12 computes them (Path.walk, which *)
(* the script calls, exists from 3.12 on), on a filesystem without         *)
(* symbolic links.                                                         *)
(*                                                                         *)
(* A string is a sequence of one-character strings, so that parsing,       *)
(* formatting, rfind and slicing are computed character by character.      *)
(* A path value is a record [root, tail]: root is "", "/" or "//" and tail *)
(* is the sequence of segments, each a non-empty string.                   *)
(***************************************************************************)
EXTENDS Integers, Sequences, FiniteSets, TLC

VARIABLES
    raw,      \* the string my_dir was constructed from
    my_dir,   \* the path value under test (Path(raw))
    cwd,      \* Path.cwd(): the process's current working directory
    home,     \* Path.home(): the invoking user's home directory
    fs,       \* the filesystem: absolute segment sequence -> "dir" | "file"
    pc,       \* the statement the script executed last, by its line; in the
              \* walk loop, the line the script is at
    key,      \* the string literal the script joins to my_dir
    new_file, \* the script's new_file
    out,      \* what the last statement printed; in the walk loop, p
    paths,    \* walk(): the stack of directories still to visit
    yielded   \* walk(): the tuples yielded so far, in order

vars == <<raw, my_dir, cwd, home, fs, pc, key, new_file, out, paths, yielded>>

----------------------------------------------------------------------------
(* Bounds *)

MaxLen == 4        \* longest string my_dir is constructed from
MaxJoinLen == 4    \* most characters in the operands of a join, together
MaxEntries == 4    \* most filesystem entries at and below the walk root

Char == {"/", ".", "~", "a"}

Strings(n) == UNION {[1..k -> Char] : k \in 0..n}

sep == "/"
curdir == <<".">>
pardir == <<".", ".">>
tilde == <<"~">>

----------------------------------------------------------------------------
(* Strings *)

startswith(s, c) == Len(s) >= 1 /\ s[1] = c
endswith(s, c) == Len(s) >= 1 /\ s[Len(s)] = c

\* str.find(c): the first index of c in s (1-based), 0 when absent
find(s, c) ==
    IF \E i \in 1..Len(s) : s[i] = c
    THEN CHOOSE i \in 1..Len(s) : s[i] = c /\ \A j \in 1..(i-1) : s[j] # c
    ELSE 0

\* str.rfind(c): the last index of c in s (1-based), 0 when absent
rfind(s, c) ==
    IF \E i \in 1..Len(s) : s[i] = c
    THEN CHOOSE i \in 1..Len(s) : s[i] = c /\ \A j \in (i+1)..Len(s) : s[j] # c
    ELSE 0

\* str.split(sep): the pieces between separators, empty pieces included
RECURSIVE split(_)
split(s) ==
    LET i == find(s, sep)
    IN  IF i = 0 THEN <<s>>
        ELSE <<SubSeq(s, 1, i-1)>> \o split(SubSeq(s, i+1, Len(s)))

\* sep.join(parts)
RECURSIVE sepjoin(_)
sepjoin(parts) ==
    IF parts = <<>> THEN <<>>
    ELSE IF Len(parts) = 1 THEN parts[1]
    ELSE parts[1] \o <<sep>> \o sepjoin(Tail(parts))

\* posixpath.join without its restart at an absolute component
RECURSIVE posixjoin_append(_, _)
posixjoin_append(a, p) ==
    IF p = <<>> THEN a
    ELSE LET b == p[1]
             path == IF a = <<>> \/ endswith(a, sep) THEN a \o b
                     ELSE a \o <<sep>> \o b
         IN  posixjoin_append(path, Tail(p))

\* posixpath.join(a, *p)
RECURSIVE posixjoin(_, _)
posixjoin(a, p) ==
    IF p = <<>> THEN a
    ELSE LET b == p[1]
             path == IF startswith(b, sep) THEN b
                     ELSE IF a = <<>> \/ endswith(a, sep) THEN a \o b
                     ELSE a \o <<sep>> \o b
         IN  posixjoin(path, Tail(p))

\* posixpath.splitroot(p): <<root, rel>>
splitroot(p) ==
    IF ~startswith(p, sep) THEN << <<>>, p >>
    ELSE IF Len(p) < 2 \/ p[2] # sep \/ (Len(p) >= 3 /\ p[3] = sep)
         THEN << <<sep>>, SubSeq(p, 2, Len(p)) >>
    ELSE << <<sep, sep>>, SubSeq(p, 3, Len(p)) >>

----------------------------------------------------------------------------
(* Path values *)

PathOf(root, tail) == [root |-> root, tail |-> tail]

\* _parse_path keeping the "." pieces
Path_keepdot(s) ==
    IF s = <<>> THEN PathOf(<<>>, <<>>)
    ELSE LET sr == splitroot(s)
         IN  PathOf(sr[1], SelectSeq(split(sr[2]), LAMBDA x : x # <<>>))

\* Path(s): PurePath._parse_path
Path(s) ==
    IF s = <<>> THEN PathOf(<<>>, <<>>)
    ELSE LET sr == splitroot(s)
         IN  PathOf(sr[1],
                    SelectSeq(split(sr[2]), LAMBDA x : x # <<>> /\ x # curdir))

\* str(p): PurePath.__str__
Str(p) ==
    IF p.root # <<>> THEN p.root \o sepjoin(p.tail)
    ELSE IF p.tail = <<>> THEN curdir
    ELSE sepjoin(p.tail)

is_absolute(p) == p.root # <<>>

\* PurePath.with_segments(*pathsegments): the segments joined, then parsed
with_segments(segs) ==
    IF segs = <<>> THEN Path(<<>>)
    ELSE Path(posixjoin(segs[1], Tail(segs)))

\* p / key
truediv(p, k) == with_segments(<<Str(p), k>>)

\* joinpath with the receiver put after the arguments
joinpath_swapped(p, keys) == with_segments(keys \o <<Str(p)>>)

\* p.joinpath(*keys)
joinpath(p, keys) == with_segments(<<Str(p)>> \o keys)

\* name taking the first segment for the last
name_first(p) == IF p.tail = <<>> THEN <<>> ELSE p.tail[1]

\* p.name
name(p) == IF p.tail = <<>> THEN <<>> ELSE p.tail[Len(p.tail)]

\* suffix accepting a "." that is the first character of the name
suffix_leading(p) ==
    LET n == name(p)
        i == rfind(n, ".")
    IN  IF 1 <= i /\ i < Len(n) THEN SubSeq(n, i, Len(n)) ELSE <<>>

\* p.suffix
suffix(p) ==
    LET n == name(p)
        i == rfind(n, ".")
    IN  IF 1 < i /\ i < Len(n) THEN SubSeq(n, i, Len(n)) ELSE <<>>

\* p.stem
stem(p) ==
    LET n == name(p)
        i == rfind(n, ".")
    IN  IF 1 < i /\ i < Len(n) THEN SubSeq(n, 1, i-1) ELSE n

\* parent stopping at one segment
parent_keep_single(p) ==
    IF Len(p.tail) <= 1 THEN p
    ELSE PathOf(p.root, SubSeq(p.tail, 1, Len(p.tail) - 1))

\* parent climbing out of the empty relative path with ".."
parent_dotdot(p) ==
    IF p.tail = <<>>
    THEN IF p.root = <<>> THEN PathOf(p.root, <<pardir>>) ELSE p
    ELSE PathOf(p.root, SubSeq(p.tail, 1, Len(p.tail) - 1))

\* p.parent
parent(p) ==
    IF p.tail = <<>> THEN p
    ELSE PathOf(p.root, SubSeq(p.tail, 1, Len(p.tail) - 1))

----------------------------------------------------------------------------
(* The environment: working directory, home directories, filesystem *)

Cwd == PathOf(<<sep>>, << <<"a">> >>)

\* $HOME: a directory elsewhere, or the directory named "~" inside the
\* working directory
Homes == { PathOf(<<sep>>, << <<"~">>, <<"a">> >>),
           PathOf(<<sep>>, << <<"a">>, <<"~">> >>) }

\* the password database: login name -> home directory
Users == { <<"a">> }
pw_dir(user) == PathOf(<<sep>>, << <<"~">>, user >>)

Names == { <<"a">>, <<"~">> }

Entry(t, k) == [path |-> t, kind |-> k]
is_dir(f, t) == t = <<>> \/ Entry(t, "dir") \in f
is_entry(f, t) == t = <<>> \/ \E k \in {"dir", "file"} : Entry(t, k) \in f

\* the absolute location a path denotes, before any ".." is followed
location(p) == IF is_absolute(p) THEN p.tail ELSE cwd.tail \o p.tail

\* os.stat: follow the segments from the start directory; the location
\* reached, or <<"ENOENT">> (no segment is named "ENOENT")
ENOENT == << <<"E">> >>
RECURSIVE lookup(_, _, _)
lookup(f, cur, segs) ==
    IF ~is_entry(f, cur) THEN ENOENT
    ELSE IF segs = <<>> THEN cur
    ELSE IF ~is_dir(f, cur) THEN ENOENT
    ELSE IF segs[1] = pardir
         THEN lookup(f, IF cur = <<>> THEN cur ELSE SubSeq(cur, 1, Len(cur) - 1),
                     Tail(segs))
    ELSE lookup(f, Append(cur, segs[1]), Tail(segs))

\* p.exists()
exists(p) ==
    lookup(fs, IF is_absolute(p) THEN <<>> ELSE cwd.tail, p.tail) # ENOENT

\* posixpath.normpath on segments: ".." removes the segment before it, and
\* is dropped at the root
RECURSIVE normpath(_, _)
normpath(done, segs) ==
    IF segs = <<>> THEN done
    ELSE IF segs[1] = pardir
         THEN normpath(IF done = <<>> THEN done
                       ELSE SubSeq(done, 1, Len(done) - 1), Tail(segs))
    ELSE normpath(Append(done, segs[1]), Tail(segs))

\* p.absolute()
absolute(p) ==
    IF is_absolute(p) THEN p
    ELSE IF p.tail = <<>> THEN with_segments(<<Str(cwd)>>)
    ELSE with_segments(<<Str(cwd), Str(p)>>)

\* posixpath.expanduser of a first segment that starts with "~": the home
\* directory, or the segment unchanged when the user is unknown
userhome(seg) ==
    IF seg = tilde THEN Str(home)
    ELSE IF Tail(seg) \in Users THEN Str(pw_dir(Tail(seg)))
    ELSE seg

RuntimeError == [raised |-> "RuntimeError"]

\* p.expanduser(): a path, or RuntimeError
expanduser(p) ==
    IF ~is_absolute(p) /\ p.tail # <<>> /\ startswith(p.tail[1], "~")
    THEN LET homedir == userhome(p.tail[1])
         IN  IF startswith(homedir, "~") THEN RuntimeError
             ELSE LET h == Path(homedir)
                  IN  PathOf(h.root, h.tail \o Tail(p.tail))
    ELSE p

\* resolve taking a first segment "~" for the home directory
resolve_expanding(p) ==
    IF ~is_absolute(p) /\ p.tail # <<>> /\ p.tail[1] = tilde
    THEN PathOf(<<sep>>, normpath(<<>>, home.tail \o Tail(p.tail)))
    ELSE PathOf(<<sep>>, normpath(<<>>, location(p)))

\* p.resolve() on a filesystem without symbolic links: os.path.realpath
resolve(p) == PathOf(<<sep>>, normpath(<<>>, location(p)))

----------------------------------------------------------------------------
(* The filesystems the walk is run on *)

\* the working directory alone
BaseFs == { Entry(SubSeq(Cwd.tail, 1, k), "dir") : k \in 1..Len(Cwd.tail) }

\* Path(".devcontainer"): a one-segment relative path
Top == Path(<<"a">>)

\* the filesystem the rest of the script runs on: Top is missing from it
SampleFs ==
    { Entry(<< <<"a">> >>, "dir"),
      Entry(<< <<"a">>, <<"~">> >>, "dir"),
      Entry(<< <<"a">>, <<"~">>, <<"a">> >>, "file") }

isprefix(s, t) == Len(s) <= Len(t) /\ SubSeq(t, 1, Len(s)) = s

\* the places of f where one more entry can be created: Top itself while
\* it is missing, then inside any directory at or below it
Sites(f) ==
    IF ~is_entry(f, location(Top)) THEN { location(Top) }
    ELSE { Append(e.path, n) :
             e \in { x \in f : x.kind = "dir" /\ isprefix(location(Top), x.path) },
             n \in Names }

\* every filesystem with at most n entries at and below Top
RECURSIVE Trees(_)
Trees(n) ==
    IF n = 0 THEN { BaseFs }
    ELSE LET prev == Trees(n - 1)
         IN  prev \cup
             UNION { { f \cup { Entry(t, k) } :
                         t \in { s \in Sites(f) : ~is_entry(f, s) },
                         k \in {"dir", "file"} } : f \in prev }

\* the split of walk() with the is_dir test inverted
dirnames_files(f, p) == { n \in Names : Entry(Append(location(p), n), "file") \in f }

\* Path._scandir: the names in a directory, split as walk() splits them
dirnames(f, p) == { n \in Names : Entry(Append(location(p), n), "dir") \in f }

\* the names walk() files under filenames: the entries that are no directory
filenames(f, p) == { n \in Names : Entry(Append(location(p), n), "file") \in f }

\* the orders os.scandir may list a set of names in
Orders(S) == { o \in [1..Cardinality(S) -> S] : \A n \in S : \E i \in DOMAIN o : o[i] = n }

reversed(s) == [i \in 1..Len(s) |-> s[Len(s) + 1 - i]]

\* path._make_child_relpath(name)
make_child_relpath(p, n) == PathOf(p.root, Append(p.tail, n))

----------------------------------------------------------------------------
(* The script from line 13 on, run after the walk loop found nothing: one  *)
(* action per statement, in the script's order.  The script's literals are *)
(* inputs: raw for "testdirectory" / "file1.txt" / "~/.config", key for    *)
(* "new_file.txt".                                                         *)

Unbound == [unbound |-> TRUE]

\* a path-like operand of at most n characters: a string, or the string a
\* Path hands to the constructor of the joined path
PathLike(n) ==
    Strings(n) \cup { Str(Path(s)) : s \in Strings(n) }

\* the characters left for a further operand
Room(n) == IF n < 0 THEN 0 ELSE n

\* line 13: my_dir = Path(raw)
Init ==
    /\ raw \in Strings(MaxLen)
    /\ my_dir = Path(raw)
    /\ cwd = Cwd
    /\ home \in Homes
    /\ fs = SampleFs
    /\ pc = "L13"
    /\ key = <<>>
    /\ new_file = Unbound
    /\ out = <<>>
    /\ paths = <<>>
    /\ yielded = <<>>

Statement(from, to, r) ==
    /\ pc = from
    /\ pc' = to
    /\ out' = r
    /\ UNCHANGED <<raw, my_dir, cwd, home, fs, key, new_file, paths, yielded>>

\* line 15: print(my_file.name)
NameOp == Statement("L13", "L15", name(my_dir))

\* line 20: print(my_file.suffix)
SuffixOp == Statement("L15", "L20", suffix(my_dir))

\* line 25: print(my_file.stem)
StemOp == Statement("L20", "L25", stem(my_dir))

\* line 28: new_file = my_dir / key
TruedivOp ==
    /\ pc = "L25"
    /\ pc' = "L28"
    /\ \E k \in PathLike(Room(MaxJoinLen - Len(raw))) :
          /\ key' = k
          /\ new_file' = truediv(my_dir, k)
    /\ out' = new_file'
    /\ UNCHANGED <<raw, my_dir, cwd, home, fs, paths, yielded>>

\* a joinpath that appends to its receiver in place
JoinpathInPlace ==
    /\ pc = "L28"
    /\ pc' = "L30"
    /\ my_dir' = joinpath(my_dir, <<key>>)
    /\ new_file' = my_dir'
    /\ out' = new_file'
    /\ UNCHANGED <<raw, cwd, home, fs, key, paths, yielded>>

\* line 30: new_file = my_dir.joinpath(key)
JoinpathOp ==
    /\ pc = "L28"
    /\ pc' = "L30"
    /\ new_file' = joinpath(my_dir, <<key>>)
    /\ out' = new_file'
    /\ UNCHANGED <<raw, my_dir, cwd, home, fs, key, paths, yielded>>

\* lines 35-37: print(my_dir.exists()); print(new_file.exists())
ExistsOp == Statement("L30", "L35", <<exists(my_dir), exists(new_file)>>)

\* line 40: print(my_dir.parent.parent)
ParentParentOp == Statement("L35", "L40", parent(parent(my_dir)))

\* line 41: print(my_file.parent)
ParentOp == Statement("L40", "L41", parent(my_dir))

\* line 42: print(new_file.parent)
NewFileParentOp == Statement("L41", "L42", parent(new_file))

\* line 46: print(my_dir.absolute())
AbsoluteOp == Statement("L42", "L46", absolute(my_dir))

\* line 55: p = Path("~/.config").resolve()
ResolveOp == Statement("L46", "L55", resolve(my_dir))

\* line 59: p = Path("~/.config").expanduser()
ExpanduserOp == Statement("L55", "L59", expanduser(my_dir))

\* line 63: p = Path.home() / "dotfiles"; not reached when line 59 raised
HomeOp ==
    /\ pc = "L59"
    /\ out # RuntimeError
    /\ Statement("L59", "L63", truediv(home, key))

Next ==
    \/ NameOp
    \/ SuffixOp
    \/ StemOp
    \/ TruedivOp
    \/ JoinpathOp
    \/ ExistsOp
    \/ ParentParentOp
    \/ ParentOp
    \/ NewFileParentOp
    \/ AbsoluteOp
    \/ ResolveOp
    \/ ExpanduserOp
    \/ HomeOp

Spec == Init /\ [][Next]_vars

----------------------------------------------------------------------------
(* joinpath on three operands.  The script joins two; the grouping of a    *)
(* third is a property of joinpath alone, so the operands are drawn and    *)
(* joinpath is applied to them both ways round.                            *)

JoinInit ==
    /\ raw \in Strings(MaxLen)
    /\ my_dir = Path(raw)
    /\ cwd = Cwd
    /\ home \in Homes
    /\ fs = SampleFs
    /\ pc = "a"
    /\ key = <<>>
    /\ new_file = Unbound
    /\ out = <<>>
    /\ paths = <<>>
    /\ yielded = <<>>

\* new_file = my_dir.joinpath(b)
JoinFirstOp ==
    /\ pc = "a"
    /\ pc' = "a.b"
    /\ \E b \in PathLike(Room(MaxJoinLen - Len(raw))) :
          /\ key' = b
          /\ new_file' = joinpath(my_dir, <<b>>)
    /\ out' = new_file'
    /\ UNCHANGED <<raw, my_dir, cwd, home, fs, paths, yielded>>

\* new_file.joinpath(c) and my_dir.joinpath(Path(b).joinpath(c))
JoinTwiceOp ==
    /\ pc = "a.b"
    /\ pc' = "a.b.c"
    /\ \E c \in PathLike(Room(MaxJoinLen - Len(raw) - Len(key))) :
          out' = [c |-> c,
                  chained |-> joinpath(new_file, <<c>>),
                  nested |-> joinpath(my_dir, <<Str(joinpath(Path(key), <<c>>))>>)]
    /\ UNCHANGED <<raw, my_dir, cwd, home, fs, key, new_file, paths, yielded>>

JoinNext == JoinFirstOp \/ JoinTwiceOp

JoinSpec == JoinInit /\ [][JoinNext]_vars

----------------------------------------------------------------------------
(* Lines 7-8: for p in Path(".devcontainer").walk(): print(p) *)

WalkInit ==
    /\ raw = <<>>
    /\ my_dir = Unbound
    /\ cwd = Cwd
    /\ home \in Homes
    /\ fs \in Trees(MaxEntries)
    /\ pc = "L7"
    /\ key = <<>>
    /\ new_file = Unbound
    /\ out = <<>>
    /\ paths = <<Top>>
    /\ yielded = <<>>

\* the tuple walk() yields for a directory: its path, the names of its
\* subdirectories and the names of its other entries, in scandir order
WalkItem(path, order) ==
    [dirpath |-> path,
     dirnames |-> SelectSeq(order, LAMBDA n : n \in dirnames(fs, path)),
     filenames |-> SelectSeq(order, LAMBDA n : n \in filenames(fs, path))]

\* the generator runs up to its next yield: pop a path; if it cannot be
\* scanned, drop it and go round the while loop again; otherwise yield its
\* tuple to the for loop
WalkScan ==
    /\ pc = "L7"
    /\ paths # <<>>
    /\ LET path == paths[Len(paths)]
       IN  /\ paths' = SubSeq(paths, 1, Len(paths) - 1)
           /\ IF ~(is_entry(fs, location(path)) /\ is_dir(fs, location(path)))
              THEN UNCHANGED <<pc, yielded, out>>
              ELSE \E order \in Orders(dirnames(fs, path) \cup filenames(fs, path)) :
                      /\ out' = WalkItem(path, order)
                      /\ yielded' = Append(yielded, out')
                      /\ pc' = "L8"
    /\ UNCHANGED <<raw, my_dir, cwd, home, fs, key, new_file>>

\* line 8: print(p); then the generator is resumed after its yield and
\* pushes the subdirectories of the directory it yielded
WalkResume ==
    /\ pc = "L8"
    /\ pc' = "L7"
    /\ paths' = paths \o
          [i \in 1..Len(out.dirnames) |->
              make_child_relpath(out.dirpath, reversed(out.dirnames)[i])]
    /\ UNCHANGED <<raw, my_dir, cwd, home, fs, key, new_file, out, yielded>>

\* the stack is empty: the generator is exhausted and the for loop ends
WalkDone ==
    /\ pc = "L7"
    /\ paths = <<>>
    /\ pc' = "L9"
    /\ UNCHANGED <<raw, my_dir, cwd, home, fs, key, new_file, out, paths, yielded>>

WalkNext == WalkScan \/ WalkResume \/ WalkDone

WalkSpec == WalkInit /\ [][WalkNext]_vars /\ WF_vars(WalkNext)

----------------------------------------------------------------------------
(* The strings of the script *)

Testdirectory == <<"t","e","s","t","d","i","r","e","c","t","o","r","y">>
File1Txt == <<"f","i","l","e","1",".","t","x","t">>
NewFileTxt == <<"n","e","w","_","f","i","l","e",".","t","x","t">>
TildeConfig == <<"~","/",".","c","o","n","f","i","g">>

Last(s) == s[Len(s)]
Front(s) == SubSeq(s, 1, Len(s) - 1)
Dots(n) == { i \in 1..Len(n) : n[i] = "." }
Seps(s) == { i \in 1..Len(s) : s[i] = sep }
Max(S) == CHOOSE m \in S : \A x \in S : x <= m

----------------------------------------------------------------------------
(* C1: join *)

\* C1: joining A with a path-like B gives B when B is absolute; otherwise
\* the segments of A followed by those of B, absolute exactly when A is.
\* The / operator (line 28) and joinpath (line 30) both give that value, and
\* "testdirectory" joined with "new_file.txt" prints
\* "testdirectory/new_file.txt" both ways.
JoinContract ==
    /\ pc \in {"L28", "L30"} =>
          LET B == Path(key)
          IN  IF is_absolute(B) THEN new_file = B
              ELSE /\ new_file.tail = my_dir.tail \o B.tail
                   /\ new_file.root = my_dir.root
    /\ Str(truediv(Path(Testdirectory), NewFileTxt))
          = Testdirectory \o <<sep>> \o NewFileTxt
    /\ Str(joinpath(Path(Testdirectory), <<NewFileTxt>>))
          = Testdirectory \o <<sep>> \o NewFileTxt

\* both forms have run on a two-segment relative B and a non-empty A
JoinWitness ==
    /\ pc = "L30"
    /\ ~is_absolute(Path(key))
    /\ Len(Path(key).tail) = 2
    /\ my_dir.tail # <<>>
    /\ new_file = out

----------------------------------------------------------------------------
(* C2: suffix and stem *)

\* the suffix as the claim words it: from the last "." on, when a "."
\* stands after the first character of the name
ClaimedSuffix(n) ==
    IF \E i \in Dots(n) : i > 1 THEN SubSeq(n, Max(Dots(n)), Len(n)) ELSE <<>>

\* C2 as written: suffix is ClaimedSuffix of the name, stem is the name
\* without it
SuffixAsClaimed ==
    /\ pc = "L20" => out = ClaimedSuffix(name(my_dir))
    /\ pc = "L25" =>
          out = SubSeq(name(my_dir), 1,
                       Len(name(my_dir)) - Len(ClaimedSuffix(name(my_dir))))

\* the suffix the code computes: from the last "." on, when that "." is
\* neither the first nor the last character of the name
InnerSuffix(n) ==
    IF Dots(n) # {} /\ Max(Dots(n)) > 1 /\ Max(Dots(n)) < Len(n)
    THEN SubSeq(n, Max(Dots(n)), Len(n)) ELSE <<>>

\* C2 (amended): suffix is the part of the name from its last "." on when
\* that "." is neither the first nor the last character of the name, and
\* empty otherwise; stem is the name without that suffix, so stem followed
\* by suffix is the name; suffix("testdirectory") = "",
\* suffix("file1.txt") = ".txt", stem("file1.txt") = "file1".
SuffixStem ==
    /\ pc = "L20" => out = InnerSuffix(name(my_dir))
    /\ pc = "L25" =>
          /\ out = SubSeq(name(my_dir), 1,
                          Len(name(my_dir)) - Len(InnerSuffix(name(my_dir))))
          /\ out \o InnerSuffix(name(my_dir)) = name(my_dir)
    /\ suffix(Path(Testdirectory)) = <<>>
    /\ suffix(Path(File1Txt)) = <<".", "t", "x", "t">>
    /\ stem(Path(File1Txt)) = <<"f", "i", "l", "e", "1">>

\* stem printed for a name with a non-empty suffix
SuffixStemWitness ==
    /\ pc = "L25"
    /\ suffix(my_dir) # <<>>
    /\ out # name(my_dir)

----------------------------------------------------------------------------
(* C3: name *)

\* the part of s after its last separator, or s when it has none
AfterLastSep(s) ==
    IF Seps(s) = {} THEN s ELSE SubSeq(s, Max(Seps(s)) + 1, Len(s))

\* C3 as written: name(parse(s)) is the part of s after its last separator
NameAsClaimed == pc = "L15" => out = AfterLastSep(raw)

\* the pieces of s between separators that become segments: non-empty and
\* not ".", as <<first, last>> index pairs
Pieces(s) ==
    { ij \in (1..Len(s)) \X (1..Len(s)) :
        /\ ij[1] <= ij[2]
        /\ \A k \in ij[1]..ij[2] : s[k] # sep
        /\ ij[1] = 1 \/ s[ij[1] - 1] = sep
        /\ ij[2] = Len(s) \/ s[ij[2] + 1] = sep
        /\ SubSeq(s, ij[1], ij[2]) # curdir }

LastPiece(s) ==
    IF Pieces(s) = {} THEN <<>>
    ELSE LET ij == CHOOSE x \in Pieces(s) : \A y \in Pieces(s) : y[1] <= x[1]
         IN  SubSeq(s, ij[1], ij[2])

\* C3 (amended): name(parse(s)) is the last segment of the parsed path,
\* that is the last piece of s between separators that is neither empty
\* nor ".", and empty when there is none; it is the part of s after the
\* last separator whenever that part is neither empty nor ".".
NameIsLastSegment ==
    pc = "L15" =>
        /\ out = LastPiece(raw)
        /\ out = IF my_dir.tail = <<>> THEN <<>> ELSE Last(my_dir.tail)
        /\ AfterLastSep(raw) \notin {<<>>, curdir} => out = AfterLastSep(raw)

\* name printed for a string with a trailing separator after a repeated one
NameWitness ==
    /\ pc = "L15"
    /\ Len(raw) >= 3
    /\ Last(raw) = sep
    /\ \E i \in 1..(Len(raw) - 1) : raw[i] = sep /\ raw[i+1] = sep
    /\ out # <<>>

----------------------------------------------------------------------------
(* C4: resolve and expanduser on a leading "~" *)

TildeFirst(p) == ~is_absolute(p) /\ p.tail # <<>> /\ p.tail[1] = tilde
StartsWithTilde(p) ==
    ~is_absolute(p) /\ p.tail # <<>> /\ startswith(p.tail[1], "~")
Literal(p) == PathOf(<<sep>>, cwd.tail \o p.tail)
HomePlus(p) == PathOf(home.root, home.tail \o Tail(p.tail))

\* C4 as written: for a relative path whose first segment is "~", resolve()
\* gives the working directory followed by "~" and the other segments as
\* they are, which is not what expanduser() gives; expanduser() puts the
\* home directory in place of a first segment "~" and leaves a path not
\* starting with "~" as it is
TildeAsClaimed ==
    /\ pc = "L55" /\ TildeFirst(my_dir) =>
          /\ out = Literal(my_dir)
          /\ out # expanduser(my_dir)
    /\ pc = "L59" /\ TildeFirst(my_dir) => out = HomePlus(my_dir)
    /\ pc = "L59" /\ ~StartsWithTilde(my_dir) => out = my_dir

\* C4 (amended): for a relative path whose first segment is "~" and none of
\* whose segments is "..", on a filesystem without symbolic links,
\* resolve() gives the working directory followed by "~" and the other
\* segments as they are; that differs from what expanduser() gives unless
\* the home directory is the directory named "~" in the working directory.
\* expanduser() puts the home directory in place of a first segment "~"
\* and leaves a path not starting with "~" as it is.
TildeLiteral ==
    /\ (/\ pc = "L55"
        /\ TildeFirst(my_dir)
        /\ \A i \in DOMAIN my_dir.tail : my_dir.tail[i] # pardir) =>
             /\ out = Literal(my_dir)
             /\ home.tail # Append(cwd.tail, tilde) => out # expanduser(my_dir)
    /\ pc = "L59" /\ TildeFirst(my_dir) => out = HomePlus(my_dir)
    /\ pc = "L59" /\ ~StartsWithTilde(my_dir) => out = my_dir
    /\ LET p == Path(TildeConfig)
       IN  /\ TildeFirst(p)
           /\ resolve(p) = PathOf(<<sep>>, cwd.tail \o p.tail)
           /\ expanduser(p) = PathOf(home.root, Append(home.tail, Last(p.tail)))

\* "~" followed by another segment has been resolved, with the home
\* directory elsewhere
TildeWitness ==
    /\ pc = "L55"
    /\ TildeFirst(my_dir)
    /\ Len(my_dir.tail) = 2
    /\ my_dir.tail[2] # pardir
    /\ home.tail # Append(cwd.tail, tilde)
    /\ out # expanduser(my_dir)

----------------------------------------------------------------------------
(* C5: path values are not changed by the operations on them *)

\* C5: no statement changes my_dir: after every accessor, join, parent,
\* absolute, resolve, expanduser and exists call it is the value it was
\* constructed as, the results being new values; and the second join
\* (line 30) gives the value the first (line 28) gave.
NeverMutated ==
    [][/\ my_dir' = my_dir
       /\ my_dir = Path(raw)
       /\ pc' = "L30" => new_file' = new_file]_vars

\* the script has run to its end, and the joins, parent and absolute gave
\* values other than my_dir
NeverMutatedWitness ==
    /\ pc = "L63"
    /\ my_dir = Path(raw)
    /\ new_file # my_dir
    /\ parent(my_dir) # my_dir
    /\ absolute(my_dir) # my_dir

----------------------------------------------------------------------------
(* C7, C8: parent *)

\* C7 as written: parent drops the last segment, and a path with at most
\* one segment is its own parent
ParentAsClaimed ==
    pc = "L41" =>
        /\ my_dir.tail # <<>> =>
              out = PathOf(my_dir.root, Front(my_dir.tail))
        /\ Len(my_dir.tail) <= 1 => out = my_dir

\* C7 (amended): parent(p) is p without its last segment, and the parent
\* of a path with zero segments is itself; parent(p) == p exactly when p
\* has no segment (the parent of a one-segment path is the path of no
\* segments with the same root).
ParentDropsLast ==
    pc = "L41" =>
        /\ my_dir.tail # <<>> =>
              out = PathOf(my_dir.root, Front(my_dir.tail))
        /\ my_dir.tail = <<>> => out = my_dir
        /\ out = my_dir <=> my_dir.tail = <<>>

\* the parent of a one-segment path has been printed
ParentWitness ==
    /\ pc = "L41"
    /\ Len(my_dir.tail) = 1
    /\ out = PathOf(my_dir.root, <<>>)

\* parent applied n times
RECURSIVE ParentN(_, _)
ParentN(p, n) == IF n = 0 THEN p ELSE parent(ParentN(p, n - 1))

\* C8: for p with zero or one segment parent(parent(p)) == parent(p); from
\* any path, applying parent once per segment reaches a path that is its
\* own parent.
ParentFixedPoint ==
    pc = "L40" =>
        /\ Len(my_dir.tail) <= 1 => out = parent(my_dir)
        /\ LET top == ParentN(my_dir, Len(my_dir.tail))
           IN  parent(top) = top

\* my_dir.parent.parent has been printed for a one-segment absolute path
ParentFixedPointWitness ==
    /\ pc = "L40"
    /\ Len(my_dir.tail) = 1
    /\ is_absolute(my_dir)
    /\ out = parent(my_dir)

----------------------------------------------------------------------------
(* C9, C10: laws of join *)

\* C9: join is associative when b and c are not absolute:
\* join(join(a, b), c) == join(a, join(b, c)), a absolute or not.
JoinAssociative ==
    pc = "a.b.c" /\ ~is_absolute(Path(key)) /\ ~is_absolute(Path(out.c)) =>
        out.chained = out.nested

\* three operands with a segment each, the first absolute, joined both ways
JoinAssociativeWitness ==
    /\ pc = "a.b.c"
    /\ is_absolute(my_dir) /\ my_dir.tail # <<>>
    /\ ~is_absolute(Path(key)) /\ Path(key).tail # <<>>
    /\ ~is_absolute(Path(out.c)) /\ Path(out.c).tail # <<>>
    /\ Len(out.chained.tail) = 3
    /\ out.chained = out.nested

\* C10: for every p and every q that is not absolute and has a segment,
\* parent(join(p, q)) == join(p, parent(q)); the parent of my_dir joined
\* with "new_file.txt" is my_dir.
ParentOfJoin ==
    /\ pc = "L42" /\ ~is_absolute(Path(key)) /\ Path(key).tail # <<>> =>
          out = joinpath(my_dir, <<Str(parent(Path(key)))>>)
    /\ parent(joinpath(Path(Testdirectory), <<NewFileTxt>>))
          = Path(Testdirectory)

\* new_file.parent has been printed for a two-segment key and a non-empty
\* my_dir
ParentOfJoinWitness ==
    /\ pc = "L42"
    /\ ~is_absolute(Path(key))
    /\ Len(Path(key).tail) = 2
    /\ my_dir.tail # <<>>
    /\ out # my_dir

----------------------------------------------------------------------------
(* C6: walk *)

\* the directories at and below Top, as the relative paths walk() names
\* them by
ReachableDirs ==
    IF ~is_dir(fs, location(Top)) THEN {}
    ELSE { PathOf(<<>>, SubSeq(e.path, Len(cwd.tail) + 1, Len(e.path))) :
             e \in { x \in fs : x.kind = "dir" /\ isprefix(location(Top), x.path) } }

\* C6 as written: when the walk has ended, what it yielded is one path
\* value for every directory at or below Top, none twice, and nothing
\* when Top is missing or is not a directory
WalkAsClaimed ==
    pc = "L9" =>
        /\ { yielded[i] : i \in DOMAIN yielded } = ReachableDirs
        /\ \A i, j \in DOMAIN yielded : yielded[i] = yielded[j] => i = j
        /\ ~is_dir(fs, location(Top)) => yielded = <<>>

WalkResult ==
    /\ \A i, j \in DOMAIN yielded :
          yielded[i].dirpath = yielded[j].dirpath => i = j
    /\ { yielded[i].dirpath : i \in DOMAIN yielded } = ReachableDirs
    /\ \A i \in DOMAIN yielded :
          \/ yielded[i].dirpath = Top
          \/ \E j \in 1..(i-1) : yielded[j].dirpath = parent(yielded[i].dirpath)
    /\ \A i \in DOMAIN yielded :
          LET kids(k) == { n \in Names :
                             Entry(Append(location(yielded[i].dirpath), n), k) \in fs }
          IN  /\ { yielded[i].dirnames[k] : k \in DOMAIN yielded[i].dirnames }
                    = kids("dir")
              /\ { yielded[i].filenames[k] : k \in DOMAIN yielded[i].filenames }
                    = kids("file")
    /\ ~is_dir(fs, location(Top)) => yielded = <<>>

\* C6 (amended): on a finite tree without links, walk() from Top ends,
\* having yielded one tuple for every directory at or below Top, none
\* twice and each after its parent's: the directory's path, the names of
\* its subdirectories and the names of its other entries; when Top is
\* missing or is not a directory it yields nothing.
WalkTerminates ==
    /\ [](pc = "L9" => WalkResult)
    /\ [](\A i, j \in DOMAIN yielded :
             yielded[i].dirpath = yielded[j].dirpath => i = j)
    /\ <>(pc = "L9")

\* the walk has ended on a tree with a directory two levels below Top and
\* a file beside it
WalkWitness ==
    /\ pc = "L9"
    /\ Len(yielded) >= 3
    /\ \E i \in DOMAIN yielded : Len(yielded[i].dirpath.tail) = 3
    /\ \E i \in DOMAIN yielded : yielded[i].filenames # <<>>

====
